---- MODULE Spec2Model ----
(***************************************************************************)
(* Preview / approve / apply / rollback workflow of the Bear MCP server.   *)
(*                                                                         *)
(* One asyncio event loop runs the MCP tool handlers (mcp_server.py) and   *)
(* the FastAPI route handlers (web_server.py).  Every handler shares one   *)
(* aiosqlite connection (database.py): each `await` on it queues one       *)
(* statement on the connection's single worker thread, so statements run   *)
(* one at a time, in the order the handlers issue them, and a handler can  *)
(* be overtaken by any other handler between two of its statements.  The   *)
(* note store (bear_client.py) is called synchronously.                    *)
(*                                                                         *)
(* A step of a handler is therefore: the synchronous code since its last   *)
(* statement returned (note-store calls and the clock reads included),     *)
(* followed by its next SQL statement.                                     *)
(***************************************************************************)
EXTENDS Integers, Sequences, FiniteSets, TLC

\* ------------------------------------------------------------------------
\* Bounds of the model
\* ------------------------------------------------------------------------
MaxPreviews == 2      \* preview ids (uuid4 values) that can be handed out
MaxApplied == 2       \* rollback ids (uuid4 values) that can be handed out
MaxTasks == 2         \* handlers in flight at the same time
MaxRequests == 4      \* requests and tool calls the clients send
MaxNow == 11          \* the clock stops advancing at this minute
MaxCrashes == 1       \* process crashes followed by a restart
MaxUptime == 2900     \* minutes the process is watched running without a restart

\* ------------------------------------------------------------------------
\* Program constants
\* ------------------------------------------------------------------------
expiry_minutes == 10          \* create_preview(expiry_minutes=10)
CLEANUP_HOURS == 24           \* cleanup_expired: timedelta(hours=24)
RETENTION_DAYS == 90          \* database.RETENTION_DAYS

\* ------------------------------------------------------------------------
\* State
\* ------------------------------------------------------------------------
VARIABLES
    now,        \* datetime.now(): the local time, in minutes
    notes,      \* the note store (Bear): note id -> text
    writes,     \* the note store's count of add-text calls it carried out for apply, per preview
    previews,   \* table previews as the connection sees it: preview_id -> row
    applied,    \* table applied_changes as the connection sees it: rollback_id -> row
    disk,       \* both tables as last committed
    changes,    \* the connection's changes(): rows touched by its last INSERT/UPDATE/DELETE
    nextPid,    \* the next fresh preview_id
    nextRid,    \* the next fresh rollback_id
    tasks,      \* the handlers in flight
    requests,   \* requests and tool calls accepted so far
    knownPids,  \* preview ids the tool has returned to its caller
    knownRids,  \* rollback ids a response has shown to a client
    crashes,    \* process restarts so far
    failed,     \* previews for which an apply's note-store write has reported failure
    tz          \* the machine's UTC offset in minutes: local time = UTC + tz

vars == <<now, notes, writes, previews, applied, disk, changes, nextPid, nextRid, tasks, requests,
          knownPids, knownRids, crashes, failed, tz>>

NL == "\n"
HASH == "#"
SPACE == " "

\* ------------------------------------------------------------------------
\* Text: a Python str is a sequence of one-character strings
\* ------------------------------------------------------------------------
Min(a, b) == IF a < b THEN a ELSE b
Max(a, b) == IF a > b THEN a ELSE b

IsWhitespace(c) == c \in {SPACE, NL, "\t"}

\* str.startswith
StartsWith(s, p) == Len(p) <= Len(s) /\ SubSeq(s, 1, Len(p)) = p

\* positions at which t occurs in s
Occurrences(s, t) == {i \in 1..(Len(s) - Len(t) + 1) : SubSeq(s, i, i + Len(t) - 1) = t}

\* `t in s`
Contains(s, t) == t = <<>> \/ Occurrences(s, t) # {}

\* str.find-like: first position of t in s (0 when absent)
FirstOccurrence(s, t) ==
    IF Occurrences(s, t) = {} THEN 0
    ELSE CHOOSE i \in Occurrences(s, t) : \A j \in Occurrences(s, t) : i <= j

RECURSIVE ReplaceAll(_, _, _)
\* str.replace(t, c) for non-empty t: every non-overlapping occurrence, left to right
ReplaceAll(s, t, c) ==
    LET i == FirstOccurrence(s, t) IN
    IF i = 0 THEN s
    ELSE SubSeq(s, 1, i - 1) \o c \o ReplaceAll(SubSeq(s, i + Len(t), Len(s)), t, c)

RECURSIVE SplitLines(_)
\* str.split('\n')
SplitLines(s) ==
    LET i == FirstOccurrence(s, <<NL>>) IN
    IF i = 0 THEN <<s>>
    ELSE <<SubSeq(s, 1, i - 1)>> \o SplitLines(SubSeq(s, i + 1, Len(s)))

RECURSIVE JoinLines(_)
\* '\n'.join(lines)
JoinLines(lines) ==
    IF Len(lines) = 0 THEN <<>>
    ELSE IF Len(lines) = 1 THEN lines[1]
    ELSE lines[1] \o <<NL>> \o JoinLines(Tail(lines))

RECURSIVE LStrip(_)
\* str.lstrip()
LStrip(s) == IF s # <<>> /\ IsWhitespace(Head(s)) THEN LStrip(Tail(s)) ELSE s

RECURSIVE RStrip(_)
\* str.rstrip()
RStrip(s) ==
    IF s # <<>> /\ IsWhitespace(s[Len(s)]) THEN RStrip(SubSeq(s, 1, Len(s) - 1)) ELSE s

\* str.strip()
Strip(s) == RStrip(LStrip(s))

RECURSIVE LStripHash(_)
\* str.lstrip('#')
LStripHash(s) == IF s # <<>> /\ Head(s) = HASH THEN LStripHash(Tail(s)) ELSE s

\* len(line) - len(line.lstrip('#')): the level is counted on the raw line
HeadingLevel(line) == Len(line) - Len(LStripHash(line))

\* line.strip().startswith('#')
IsHeaderLine(line) == StartsWith(Strip(line), <<HASH>>)

Digits == <<"0", "1", "2", "3", "4", "5", "6", "7", "8", "9">>
IsDigit(c) == \E d \in 1..Len(Digits) : Digits[d] = c
DigitValue(c) == (CHOOSE d \in 1..Len(Digits) : Digits[d] = c) - 1

RECURSIVE DigitsValue(_)
DigitsValue(s) ==
    IF s = <<>> THEN 0 ELSE 10 * DigitsValue(SubSeq(s, 1, Len(s) - 1)) + DigitValue(s[Len(s)])

\* int(target): surrounding whitespace, an optional sign, then decimal digits
IsInt(s) ==
    LET t == Strip(s)
        u == IF t # <<>> /\ Head(t) \in {"+", "-"} THEN Tail(t) ELSE t
    IN  u # <<>> /\ \A i \in 1..Len(u) : IsDigit(u[i])

IntValue(s) ==
    LET t == Strip(s)
        neg == t # <<>> /\ Head(t) = "-"
        u == IF t # <<>> /\ Head(t) \in {"+", "-"} THEN Tail(t) ELSE t
    IN  IF neg THEN 0 - DigitsValue(u) ELSE DigitsValue(u)

\* list.insert(i, x) for 0 <= i <= len
InsertAt(lines, i, x) == SubSeq(lines, 1, i) \o <<x>> \o SubSeq(lines, i + 1, Len(lines))

\* ------------------------------------------------------------------------
\* Content transformation of _handle_preview_update
\*   a result is <<"ok", text>> or <<"error", reason>>
\*   an absent target (None) is the empty text: `if target` is false for both
\* ------------------------------------------------------------------------
valid_operations == {"append", "prepend", "replace", "insert_at_line", "replace_section"}

\* index (1-based) of the first line that contains target and is a header; 0 if none
SectionStart(lines, target) ==
    LET hits == {i \in 1..Len(lines) : Contains(lines[i], target) /\ IsHeaderLine(lines[i])}
    IN  IF hits = {} THEN 0 ELSE CHOOSE i \in hits : \A j \in hits : i <= j

\* a variant of the search that stops at the next header of any level
SectionEndAnyLevel(lines, start) ==
    LET ends == {j \in (start + 1)..Len(lines) : IsHeaderLine(lines[j])}
    IN  IF ends = {} THEN Len(lines) + 1 ELSE CHOOSE j \in ends : \A k \in ends : j <= k

\* index (1-based) of the line that ends the section; Len(lines) + 1 if none
SectionEnd(lines, start) ==
    LET level == HeadingLevel(lines[start])
        ends == {j \in (start + 1)..Len(lines) :
                    IsHeaderLine(lines[j]) /\ HeadingLevel(lines[j]) <= level}
    IN  IF ends = {} THEN Len(lines) + 1 ELSE CHOOSE j \in ends : \A k \in ends : j <= k

ReplaceSection(original, target, content) ==
    LET lines == SplitLines(original)
        start == SectionStart(lines, target)
    IN  IF start = 0 THEN <<"error", "Section not found in note">>
        ELSE <<"ok", JoinLines(SubSeq(lines, 1, start) \o <<content>> \o
                               SubSeq(lines, SectionEnd(lines, start), Len(lines)))>>

\* a variant of the branch without max(0, min(...)): list.insert then counts a
\* negative index from the end of the list
InsertAtLineUnclamped(original, target, content) ==
    IF ~IsInt(target) THEN <<"error", "For insert_at_line, target must be a line number">>
    ELSE LET lines == SplitLines(original)
             index == IntValue(target) - 1
             line_index == IF index < 0 THEN Max(0, Len(lines) + index)
                           ELSE Min(index, Len(lines))
         IN  <<"ok", JoinLines(InsertAt(lines, line_index, content))>>

InsertAtLine(original, target, content) ==
    IF ~IsInt(target) THEN <<"error", "For insert_at_line, target must be a line number">>
    ELSE LET lines == SplitLines(original)
             line_index == Max(0, Min(IntValue(target) - 1, Len(lines)))
         IN  <<"ok", JoinLines(InsertAt(lines, line_index, content))>>

\* a variant of the transformation whose append marks the text when previews
\* are already stored
TransformMarksLaterPreviews(original, operation, target, content) ==
    IF operation = "append" THEN
        <<"ok", original \o <<NL>> \o content \o
                (IF DOMAIN previews = {} THEN <<>> ELSE <<"+">>)>>
    ELSE IF operation = "prepend" THEN <<"ok", content \o <<NL>> \o original>>
    ELSE IF operation = "replace" THEN
        IF target # <<>> THEN
            IF Contains(original, target) THEN <<"ok", ReplaceAll(original, target, content)>>
            ELSE <<"error", "Target text not found in note">>
        ELSE <<"ok", content>>
    ELSE IF operation = "insert_at_line" /\ target # <<>> THEN
        InsertAtLine(original, target, content)
    ELSE IF operation = "replace_section" /\ target # <<>> THEN
        ReplaceSection(original, target, content)
    ELSE <<"error", "Invalid operation or missing target parameter">>

\* a variant of the transformation whose append and prepend leave out the
\* newline next to an empty text
TransformJoinsNonEmpty(original, operation, target, content) ==
    IF operation = "append" THEN
        <<"ok", IF original = <<>> \/ content = <<>> THEN original \o content
                ELSE original \o <<NL>> \o content>>
    ELSE IF operation = "prepend" THEN
        <<"ok", IF original = <<>> \/ content = <<>> THEN content \o original
                ELSE content \o <<NL>> \o original>>
    ELSE IF operation = "replace" THEN
        IF target # <<>> THEN
            IF Contains(original, target) THEN <<"ok", ReplaceAll(original, target, content)>>
            ELSE <<"error", "Target text not found in note">>
        ELSE <<"ok", content>>
    ELSE IF operation = "insert_at_line" /\ target # <<>> THEN
        InsertAtLine(original, target, content)
    ELSE IF operation = "replace_section" /\ target # <<>> THEN
        ReplaceSection(original, target, content)
    ELSE <<"error", "Invalid operation or missing target parameter">>

\* a variant of the transformation whose replace does not test that the target
\* occurs: str.replace then returns the original unchanged
TransformUncheckedReplace(original, operation, target, content) ==
    IF operation = "append" THEN <<"ok", original \o <<NL>> \o content>>
    ELSE IF operation = "prepend" THEN <<"ok", content \o <<NL>> \o original>>
    ELSE IF operation = "replace" THEN
        IF target # <<>> THEN <<"ok", ReplaceAll(original, target, content)>>
        ELSE <<"ok", content>>
    ELSE IF operation = "insert_at_line" /\ target # <<>> THEN
        InsertAtLine(original, target, content)
    ELSE IF operation = "replace_section" /\ target # <<>> THEN
        ReplaceSection(original, target, content)
    ELSE <<"error", "Invalid operation or missing target parameter">>

Transform(original, operation, target, content) ==
    IF operation = "append" THEN <<"ok", original \o <<NL>> \o content>>
    ELSE IF operation = "prepend" THEN <<"ok", content \o <<NL>> \o original>>
    ELSE IF operation = "replace" THEN
        IF target # <<>> THEN
            IF Contains(original, target) THEN <<"ok", ReplaceAll(original, target, content)>>
            ELSE <<"error", "Target text not found in note">>
        ELSE <<"ok", content>>
    ELSE IF operation = "insert_at_line" /\ target # <<>> THEN
        InsertAtLine(original, target, content)
    ELSE IF operation = "replace_section" /\ target # <<>> THEN
        ReplaceSection(original, target, content)
    ELSE <<"error", "Invalid operation or missing target parameter">>

Pids == 1..MaxPreviews
Rids == 1..MaxApplied

\* an id that no uuid4 the program generates ever equals
BogusId == 0
Tasks == 1..MaxTasks

NoteIds == {"n1"}
MissingNoteId == "n0"
InitialText == <<"a">>
ExternalTexts == {<<"e">>}

\* the clock advances to the last minute of a preview's life or just past it
TickSteps == {expiry_minutes, expiry_minutes + 1}

\* arguments of bear_preview_update the environment sends
ToolInputs ==
    { [operation |-> "append", target |-> <<>>, content |-> <<"x">>],
      [operation |-> "delete", target |-> <<>>, content |-> <<"x">>] }

StatusOps == {"get_status", "http_status"}
RollbackOps == {"rollback", "restore"}

NoResult == [code |-> "", detail |-> "", status |-> "", rollback_id |-> 0, preview_id |-> 0]
IdleTask == [op |-> "idle", pc |-> "idle", id |-> 0, began |-> 0, retry |-> FALSE,
             preview |-> <<>>, row |-> <<>>, upd |-> "", replaced |-> <<>>, asked |-> <<>>,
             result |-> NoResult]

\* ------------------------------------------------------------------------
\* SQL statements of database.py
\* ------------------------------------------------------------------------
\* SQLite's CURRENT_TIMESTAMP: the time in UTC
CURRENT_TIMESTAMP == now - tz

\* SELECT ... FROM previews WHERE preview_id = ?  (fetchone: <<row>> or <<>>)
get_preview(p) == IF p \in DOMAIN previews THEN <<previews[p]>> ELSE <<>>

\* SELECT expires_at, status FROM previews WHERE preview_id = ?
SelectExpiry(p) ==
    IF p \in DOMAIN previews
    THEN <<[expires_at |-> previews[p].expires_at, status |-> previews[p].status]>>
    ELSE <<>>

\* SELECT ... FROM applied_changes WHERE rollback_id = ?
get_rollback_data(r) == IF r \in DOMAIN applied THEN <<applied[r]>> ELSE <<>>

\* SELECT rollback_id FROM applied_changes WHERE preview_id = ?  (fetchone: the
\* first row in insertion order; 0 when there is none)
RollbackIdOf(p) ==
    LET rs == {r \in DOMAIN applied : applied[r].preview_id = p}
    IN  IF rs = {} THEN 0 ELSE CHOOSE r \in rs : \A q \in rs : r <= q

\* SELECT ac.rollback_id, ... FROM applied_changes ac JOIN previews p ON
\* ac.preview_id = p.preview_id: the rollback ids the history page lists
get_all_applied_changes == {r \in DOMAIN applied : applied[r].preview_id \in DOMAIN previews}

\* a variant of the UPDATE that also gives the preview a new expiry
UpdateStatusAndExpiry(p, status) ==
    IF p \in DOMAIN previews
    THEN [previews EXCEPT ![p].status = status, ![p].expires_at = now + expiry_minutes]
    ELSE previews

\* UPDATE previews SET status = ? WHERE preview_id = ?
UpdateStatusRows(p, status) ==
    IF p \in DOMAIN previews THEN [previews EXCEPT ![p].status = status] ELSE previews

UpdateStatusCount(p) == IF p \in DOMAIN previews THEN 1 ELSE 0

\* a variant of the INSERT that binds new_content to both text columns
InsertPreviewNewAsOriginal(p, note_id, operation, target, original_content, new_content) ==
    [q \in DOMAIN previews \cup {p} |->
        IF q = p
        THEN [note_id |-> note_id, operation |-> operation, target |-> target,
              original_content |-> new_content, new_content |-> new_content,
              status |-> "pending", created_at |-> CURRENT_TIMESTAMP,
              expires_at |-> now + expiry_minutes]
        ELSE previews[q]]

\* INSERT INTO previews ...: status defaults to 'pending', created_at to CURRENT_TIMESTAMP
InsertPreview(p, note_id, operation, target, original_content, new_content) ==
    [q \in DOMAIN previews \cup {p} |->
        IF q = p
        THEN [note_id |-> note_id, operation |-> operation, target |-> target,
              original_content |-> original_content, new_content |-> new_content,
              status |-> "pending", created_at |-> CURRENT_TIMESTAMP,
              expires_at |-> now + expiry_minutes]
        ELSE previews[q]]

\* a variant of the INSERT that stores the note's text at the time of the
\* apply as the backup, instead of the text captured when the preview was made
InsertAppliedCurrentText(r, preview_id, note_id, original_content) ==
    [q \in DOMAIN applied \cup {r} |->
        IF q = r
        THEN [preview_id |-> preview_id, note_id |-> note_id,
              original_content |-> IF note_id \in DOMAIN notes THEN notes[note_id]
                                   ELSE original_content,
              applied_at |-> CURRENT_TIMESTAMP]
        ELSE applied[q]]

\* INSERT INTO applied_changes ...: applied_at defaults to CURRENT_TIMESTAMP
InsertApplied(r, preview_id, note_id, original_content) ==
    [q \in DOMAIN applied \cup {r} |->
        IF q = r
        THEN [preview_id |-> preview_id, note_id |-> note_id,
              original_content |-> original_content, applied_at |-> CURRENT_TIMESTAMP]
        ELSE applied[q]]

\* a variant of the DELETE without its test of the status
cleanup_expired_any_status(pv) ==
    LET cutoff == now - CLEANUP_HOURS * 60
        keep == {p \in DOMAIN pv : ~(pv[p].expires_at < cutoff)}
    IN  [p \in keep |-> pv[p]]

\* a variant of the DELETE whose cutoff lies 24 hours ahead of the clock
cleanup_expired_cutoff_ahead(pv) ==
    LET cutoff == now + CLEANUP_HOURS * 60
        keep == {p \in DOMAIN pv : ~(pv[p].expires_at < cutoff /\ pv[p].status = "pending")}
    IN  [p \in keep |-> pv[p]]

\* DELETE FROM previews WHERE expires_at < cutoff AND status = 'pending'
cleanup_expired(pv) ==
    LET cutoff == now - CLEANUP_HOURS * 60
        keep == {p \in DOMAIN pv : ~(pv[p].expires_at < cutoff /\ pv[p].status = "pending")}
    IN  [p \in keep |-> pv[p]]

\* DELETE FROM applied_changes WHERE applied_at < cutoff
CleanupOldApplied(ap) ==
    LET cutoff == now - RETENTION_DAYS * 24 * 60
        keep == {r \in DOMAIN ap : ~(ap[r].applied_at < cutoff)}
    IN  [r \in keep |-> ap[r]]

\* DELETE FROM previews WHERE created_at < cutoff
CleanupOldPreviews(pv) ==
    LET cutoff == now - RETENTION_DAYS * 24 * 60
        keep == {p \in DOMAIN pv : ~(pv[p].created_at < cutoff)}
    IN  [p \in keep |-> pv[p]]

\* is_preview_expired: the test made on the row it selected
RowExpired(row) == row # <<>> /\ row[1].status = "pending" /\ row[1].expires_at < now

\* db.commit()
Commit == disk' = [previews |-> previews, applied |-> applied]

\* ------------------------------------------------------------------------
\* The note store
\* ------------------------------------------------------------------------
\* bear_client.read_note: <<text>> or <<>> (None)
read_note(note_id) == IF note_id \in DOMAIN notes THEN <<notes[note_id]>> ELSE <<>>

\* bear_client.update_note(mode="replace") that reported success
NoteWritten(note_id, content) ==
    IF note_id \in DOMAIN notes THEN [notes EXCEPT ![note_id] = content] ELSE notes

\* ------------------------------------------------------------------------
\* Initial state: a fresh database, connected (Database.connect)
\* ------------------------------------------------------------------------
EmptyTable == [x \in {} |-> 0]

Init ==
    /\ now = 0
    /\ notes = [n \in NoteIds |-> InitialText]
    /\ writes = [p \in Pids |-> 0]
    /\ previews = EmptyTable
    /\ applied = EmptyTable
    /\ disk = [previews |-> EmptyTable, applied |-> EmptyTable]
    /\ changes = 0
    /\ nextPid = 1
    /\ nextRid = 1
    /\ tasks = [t \in Tasks |-> IdleTask]
    /\ requests = 0
    /\ knownPids = {}
    /\ knownRids = {}
    /\ crashes = 0
    /\ failed = {}
    /\ tz = 0

Done(t, code, detail) ==
    [tasks EXCEPT ![t].pc = "done", ![t].result.code = code, ![t].result.detail = detail]

\* ------------------------------------------------------------------------
\* Steps shared by the handlers
\* ------------------------------------------------------------------------
\* a request arrives and its handler starts in the first free slot
Accept(t) ==
    /\ requests < MaxRequests
    /\ tasks[t].op = "idle"
    /\ \A u \in Tasks : u < t => tasks[u].op # "idle"
    /\ requests' = requests + 1

Running(t, op, pc) == tasks[t].op = op /\ tasks[t].pc = pc

\* a handler that has not done its INSERT INTO applied_changes yet
ApplyInFlight == {t \in Tasks : tasks[t].op = "apply" /\
                                tasks[t].pc \in {"expired_select", "expired_check"}}

\* the rollback id a finished handler's response carries
ShownRids(k) ==
    IF k.pc = "done" /\ k.result.code = "200" /\ k.result.rollback_id # 0
    THEN {k.result.rollback_id} ELSE {}

\* the ids a client can send: one it was given, or one that names nothing
PreviewIdArgs == knownPids \cup {BogusId}
RollbackIdArgs == knownRids \cup {BogusId}

\* is_preview_expired, first statement: the SELECT of expires_at and status
ExpiredSelect(t) ==
    /\ tasks[t].pc = "expired_select"
    /\ tasks' = [tasks EXCEPT ![t].pc = "expired_check", ![t].row = SelectExpiry(tasks[t].id)]
    /\ UNCHANGED <<now, notes, writes, previews, applied, disk, changes, nextPid, nextRid,
                   requests, knownPids, knownRids, crashes, failed, tz>>

\* is_preview_expired, the row is pending and past expires_at:
\* update_preview_status(preview_id, "expired") issues its UPDATE
MarkExpired(t) ==
    /\ tasks[t].pc = "expired_check"
    /\ RowExpired(tasks[t].row)
    /\ previews' = UpdateStatusRows(tasks[t].id, "expired")
    /\ changes' = UpdateStatusCount(tasks[t].id)
    /\ tasks' = [tasks EXCEPT ![t].pc = "status_commit", ![t].upd = "expired"]
    /\ UNCHANGED <<now, notes, writes, applied, disk, nextPid, nextRid, requests, knownPids,
                   knownRids, crashes, failed, tz>>

\* update_preview_status: db.commit()
StatusCommit(t) ==
    /\ tasks[t].pc = "status_commit"
    /\ Commit
    /\ tasks' = [tasks EXCEPT ![t].pc = "status_changes"]
    /\ UNCHANGED <<now, notes, writes, previews, applied, changes, nextPid, nextRid, requests,
                   knownPids, knownRids, crashes, failed, tz>>

\* what each caller of update_preview_status does with its return value
AfterStatusUpdate(t, success) ==
    LET k == tasks[t] IN
    IF k.upd = "expired" THEN
        \* is_preview_expired returns True whatever update_preview_status returned
        IF k.op = "apply" THEN Done(t, "400", "Preview has expired")
        ELSE IF k.op = "preview_page" THEN Done(t, "200", "Preview has expired")
        ELSE [tasks EXCEPT ![t].pc = "done", ![t].result.code = "200",
                           ![t].result.status = "expired"]
    ELSE IF k.upd = "applied" THEN Done(t, "200", "Changes applied successfully")
    ELSE \* reject_changes: its HTTPException(404) is caught by `except Exception`
        IF success THEN Done(t, "200", "Changes rejected")
        ELSE Done(t, "500", "404: Preview not found")

\* update_preview_status: SELECT changes(), and the caller's code after it
StatusChanges(t) ==
    /\ tasks[t].pc = "status_changes"
    /\ tasks' = AfterStatusUpdate(t, changes > 0)
    /\ knownRids' = knownRids \cup ShownRids(tasks'[t])
    /\ UNCHANGED <<now, notes, writes, previews, applied, disk, changes, nextPid, nextRid,
                   requests, knownPids, crashes, failed, tz>>

\* the response has been sent
Return(t) ==
    /\ tasks[t].pc = "done"
    /\ tasks' = [tasks EXCEPT ![t] = IdleTask]
    /\ UNCHANGED <<now, notes, writes, previews, applied, disk, changes, nextPid, nextRid,
                   requests, knownPids, knownRids, crashes, failed, tz>>

\* ------------------------------------------------------------------------
\* bear_preview_update (tool)
\* ------------------------------------------------------------------------
PreviewUpdate(t, note_id, in) ==
    /\ Accept(t)
    /\ nextPid <= MaxPreviews
    /\ LET note_data == read_note(note_id)
           r == Transform(note_data[1], in.operation, in.target, in.content)
           \* what the call was given: the note as read and the arguments
           asked == <<[note |-> note_data, operation |-> in.operation,
                      target |-> in.target, content |-> in.content]>>
       IN
       IF in.operation \notin valid_operations THEN
           /\ tasks' = [tasks EXCEPT ![t] = [Done(t, "error", "Invalid operation")[t]
                                               EXCEPT !.op = "preview_update", !.asked = asked]]
           /\ UNCHANGED <<previews, changes, nextPid, tz>>
       ELSE IF note_data = <<>> THEN
           /\ tasks' = [tasks EXCEPT ![t] = [Done(t, "error", "Could not read note")[t]
                                               EXCEPT !.op = "preview_update", !.asked = asked]]
           /\ UNCHANGED <<previews, changes, nextPid, tz>>
       ELSE IF r[1] = "error" THEN
           /\ tasks' = [tasks EXCEPT ![t] = [Done(t, "error", r[2])[t]
                                               EXCEPT !.op = "preview_update", !.asked = asked]]
           /\ UNCHANGED <<previews, changes, nextPid, tz>>
       ELSE
           /\ previews' = InsertPreview(nextPid, note_id, in.operation, in.target,
                                        note_data[1], r[2])
           /\ changes' = 1
           /\ nextPid' = nextPid + 1
           /\ tasks' = [tasks EXCEPT ![t] = [IdleTask EXCEPT !.op = "preview_update",
                                               !.pc = "create_commit", !.id = nextPid,
                                               !.asked = asked]]
    /\ UNCHANGED <<now, notes, writes, applied, disk, nextRid, knownPids, knownRids, crashes,
                   failed, tz>>

\* create_preview: db.commit(); the tool returns the preview id and url
CreateCommit(t) ==
    /\ Running(t, "preview_update", "create_commit")
    /\ Commit
    /\ tasks' = [tasks EXCEPT ![t].pc = "done", ![t].result.code = "ok",
                              ![t].result.preview_id = tasks[t].id]
    /\ knownPids' = knownPids \cup {tasks[t].id}
    /\ UNCHANGED <<now, notes, writes, previews, applied, changes, nextPid, nextRid, requests,
                   knownRids, crashes, failed, tz>>

\* ------------------------------------------------------------------------
\* POST /api/apply/{preview_id}
\* ------------------------------------------------------------------------
\* get_preview, then the 404 and the status check on what it returned
ApplyGetPreview(t, p) ==
    /\ Accept(t)
    /\ p \in PreviewIdArgs
    /\ nextRid + Cardinality(ApplyInFlight) <= MaxApplied
    /\ LET preview == get_preview(p)
           k == [IdleTask EXCEPT !.op = "apply", !.id = p, !.began = now,
                                !.retry = (p \in failed), !.preview = preview]
       IN  tasks' = [tasks EXCEPT ![t] =
               IF preview = <<>> THEN
                   [k EXCEPT !.pc = "done", !.result.code = "404",
                             !.result.detail = "Preview not found"]
               ELSE IF preview[1].status # "pending" THEN
                   [k EXCEPT !.pc = "done", !.result.code = "400",
                             !.result.detail = "Preview already <status>",
                             !.result.status = preview[1].status]
               ELSE [k EXCEPT !.pc = "expired_select"]]
    /\ UNCHANGED <<now, notes, writes, previews, applied, disk, changes, nextPid, nextRid,
                   knownPids, knownRids, crashes, failed, tz>>

\* a variant of the failure branch that also marks the preview, as a handler
\* would that set the status before looking at the result of update_note
ApplyWriteFailedMarksApplied(t) ==
    /\ Running(t, "apply", "expired_check")
    /\ ~RowExpired(tasks[t].row)
    /\ tasks' = Done(t, "500", "Failed to update note")
    /\ failed' = failed \cup {tasks[t].id}
    /\ previews' = UpdateStatusRows(tasks[t].id, "applied")
    /\ UNCHANGED <<now, notes, writes, applied, disk, changes, nextPid, nextRid,
                   requests, knownPids, knownRids, crashes, tz>>

\* is_preview_expired returned False and bear_client.update_note returned False
ApplyWriteFailed(t) ==
    /\ Running(t, "apply", "expired_check")
    /\ ~RowExpired(tasks[t].row)
    /\ tasks' = Done(t, "500", "Failed to update note")
    /\ failed' = failed \cup {tasks[t].id}
    /\ UNCHANGED <<now, notes, writes, previews, applied, disk, changes, nextPid, nextRid,
                   requests, knownPids, knownRids, crashes, tz>>

\* is_preview_expired returned False, bear_client.update_note wrote the note and
\* returned True, and create_applied_change issues its INSERT
ApplyWriteAndRecord(t) ==
    /\ Running(t, "apply", "expired_check")
    /\ ~RowExpired(tasks[t].row)
    /\ LET preview == tasks[t].preview[1] IN
        /\ notes' = NoteWritten(preview.note_id, preview.new_content)
        /\ writes' = [writes EXCEPT ![tasks[t].id] = @ + 1]
        /\ applied' = InsertApplied(nextRid, tasks[t].id, preview.note_id,
                                    preview.original_content)
    /\ changes' = 1
    /\ nextRid' = nextRid + 1
    /\ tasks' = [tasks EXCEPT ![t].pc = "record_commit", ![t].result.rollback_id = nextRid]
    /\ UNCHANGED <<now, previews, disk, nextPid, requests, knownPids, knownRids, crashes,
                   failed, tz>>

\* create_applied_change: db.commit()
RecordCommit(t) ==
    /\ Running(t, "apply", "record_commit")
    /\ Commit
    /\ tasks' = [tasks EXCEPT ![t].pc = "status_update"]
    /\ UNCHANGED <<now, notes, writes, previews, applied, changes, nextPid, nextRid, requests,
                   knownPids, knownRids, crashes, failed, tz>>

\* update_preview_status(preview_id, "applied") issues its UPDATE
ApplyStatusUpdate(t) ==
    /\ Running(t, "apply", "status_update")
    /\ previews' = UpdateStatusRows(tasks[t].id, "applied")
    /\ changes' = UpdateStatusCount(tasks[t].id)
    /\ tasks' = [tasks EXCEPT ![t].pc = "status_commit", ![t].upd = "applied"]
    /\ UNCHANGED <<now, notes, writes, applied, disk, nextPid, nextRid, requests, knownPids,
                   knownRids, crashes, failed, tz>>

\* ------------------------------------------------------------------------
\* POST /api/reject/{preview_id}
\* ------------------------------------------------------------------------
\* update_preview_status(preview_id, "rejected") issues its UPDATE; the handler
\* reads nothing first (began and preview only note the row the UPDATE met)
RejectUpdate(t, p) ==
    /\ Accept(t)
    /\ p \in PreviewIdArgs
    /\ previews' = UpdateStatusRows(p, "rejected")
    /\ changes' = UpdateStatusCount(p)
    /\ tasks' = [tasks EXCEPT ![t] = [IdleTask EXCEPT !.op = "reject", !.id = p,
                                        !.began = now, !.preview = get_preview(p),
                                        !.pc = "status_commit", !.upd = "rejected"]]
    /\ UNCHANGED <<now, notes, writes, applied, disk, nextPid, nextRid, knownPids, knownRids,
                   crashes, failed, tz>>

\* ------------------------------------------------------------------------
\* bear_get_status (tool) and GET /api/status/{preview_id}
\* ------------------------------------------------------------------------
\* get_preview_status: its get_preview, and the not-found answer of the handler
StatusGetPreview(t, op, p) ==
    /\ Accept(t)
    /\ op \in StatusOps
    /\ p \in PreviewIdArgs
    /\ LET preview == get_preview(p)
           k == [IdleTask EXCEPT !.op = op, !.id = p, !.began = now, !.preview = preview]
       IN  tasks' = [tasks EXCEPT ![t] =
               IF preview = <<>> THEN
                   [k EXCEPT !.pc = "done",
                             !.result.code = IF op = "get_status" THEN "error" ELSE "404",
                             !.result.detail = "Preview not found"]
               ELSE IF preview[1].status = "applied" THEN
                   [k EXCEPT !.pc = "rollback_select", !.result.status = "applied"]
               ELSE [k EXCEPT !.pc = "expired_select", !.result.status = preview[1].status]]
    /\ UNCHANGED <<now, notes, writes, previews, applied, disk, changes, nextPid, nextRid,
                   knownPids, knownRids, crashes, failed, tz>>

\* a variant of get_preview_status that runs the SELECT and drops its row
StatusRollbackSelectDropsRow(t) ==
    /\ tasks[t].op \in StatusOps
    /\ tasks[t].pc = "rollback_select"
    /\ tasks' = [tasks EXCEPT ![t].pc = "expired_select"]
    /\ UNCHANGED <<now, notes, writes, previews, applied, disk, changes, nextPid, nextRid,
                   requests, knownPids, knownRids, crashes, failed, tz>>

\* get_preview_status: the SELECT of the rollback id of an applied preview
StatusRollbackSelect(t) ==
    /\ tasks[t].op \in StatusOps
    /\ tasks[t].pc = "rollback_select"
    /\ tasks' = [tasks EXCEPT ![t].pc = "expired_select",
                              ![t].result.rollback_id = RollbackIdOf(tasks[t].id)]
    /\ UNCHANGED <<now, notes, writes, previews, applied, disk, changes, nextPid, nextRid,
                   requests, knownPids, knownRids, crashes, failed, tz>>

\* is_preview_expired returned False: the status read by get_preview_status is returned
StatusReturn(t) ==
    /\ tasks[t].op \in StatusOps
    /\ tasks[t].pc = "expired_check"
    /\ ~RowExpired(tasks[t].row)
    /\ tasks' = [tasks EXCEPT ![t].pc = "done", ![t].result.code = "200"]
    /\ knownRids' = knownRids \cup ShownRids(tasks'[t])
    /\ UNCHANGED <<now, notes, writes, previews, applied, disk, changes, nextPid, nextRid,
                   requests, knownPids, crashes, failed, tz>>

\* ------------------------------------------------------------------------
\* GET /preview/{preview_id}
\* ------------------------------------------------------------------------
PageGetPreview(t, p) ==
    /\ Accept(t)
    /\ p \in PreviewIdArgs
    /\ LET preview == get_preview(p)
           k == [IdleTask EXCEPT !.op = "preview_page", !.id = p, !.began = now,
                                !.preview = preview]
       IN  tasks' = [tasks EXCEPT ![t] =
               IF preview = <<>> THEN
                   [k EXCEPT !.pc = "done", !.result.code = "404",
                             !.result.detail = "Preview not found"]
               ELSE IF preview[1].status = "applied" THEN
                   [k EXCEPT !.pc = "done", !.result.code = "200",
                             !.result.detail = "preview.html readonly",
                             !.result.status = "applied"]
               ELSE [k EXCEPT !.pc = "expired_select"]]
    /\ UNCHANGED <<now, notes, writes, previews, applied, disk, changes, nextPid, nextRid,
                   knownPids, knownRids, crashes, failed, tz>>

\* is_preview_expired returned False: the status page or the pending diff is rendered
PageRender(t) ==
    /\ Running(t, "preview_page", "expired_check")
    /\ ~RowExpired(tasks[t].row)
    /\ tasks' = [tasks EXCEPT ![t].pc = "done", ![t].result.code = "200",
                              ![t].result.status = tasks[t].preview[1].status,
                              ![t].result.detail =
                                  IF tasks[t].preview[1].status # "pending"
                                  THEN "status.html" ELSE "preview.html"]
    /\ UNCHANGED <<now, notes, writes, previews, applied, disk, changes, nextPid, nextRid,
                   requests, knownPids, knownRids, crashes, failed, tz>>

\* ------------------------------------------------------------------------
\* GET /history
\* ------------------------------------------------------------------------
\* get_all_applied_changes: applied_changes JOIN previews
HistoryPage(t) ==
    /\ Accept(t)
    /\ tasks' = [tasks EXCEPT ![t] =
           [IdleTask EXCEPT !.op = "history", !.pc = "done", !.result.code = "200",
                            !.row = <<get_all_applied_changes>>]]
    /\ knownRids' = knownRids \cup get_all_applied_changes
    /\ UNCHANGED <<now, notes, writes, previews, applied, disk, changes, nextPid, nextRid,
                   knownPids, crashes, failed, tz>>

\* ------------------------------------------------------------------------
\* bear_rollback_change (tool) and POST /api/restore/{rollback_id}
\* ------------------------------------------------------------------------
RollbackSelect(t, op, r) ==
    /\ Accept(t)
    /\ op \in RollbackOps
    /\ r \in RollbackIdArgs
    /\ LET rollback_data == get_rollback_data(r)
           k == [IdleTask EXCEPT !.op = op, !.id = r, !.row = rollback_data]
       IN  tasks' = [tasks EXCEPT ![t] =
               IF rollback_data = <<>> THEN
                   [k EXCEPT !.pc = "done",
                             !.result.code = IF op = "rollback" THEN "error" ELSE "404",
                             !.result.detail = "Rollback not found"]
               ELSE [k EXCEPT !.pc = "rollback_write"]]
    /\ UNCHANGED <<now, notes, writes, previews, applied, disk, changes, nextPid, nextRid,
                   knownPids, knownRids, crashes, failed, tz>>

\* a variant of the restore that adds the backup to the note (mode "append")
\* instead of replacing the note with it
RollbackWriteAppends(t) ==
    /\ tasks[t].op \in RollbackOps
    /\ tasks[t].pc = "rollback_write"
    /\ LET n == tasks[t].row[1].note_id IN
           notes' = NoteWritten(n, notes[n] \o <<NL>> \o tasks[t].row[1].original_content)
    /\ tasks' = [Done(t, IF tasks[t].op = "rollback" THEN "ok" ELSE "200", "restored")
                    EXCEPT ![t].replaced = read_note(tasks[t].row[1].note_id)]
    /\ UNCHANGED <<now, writes, previews, applied, disk, changes, nextPid, nextRid, requests,
                   knownPids, knownRids, crashes, failed, tz>>

\* a variant in which the tool restores with mode "append" and the HTTP route
\* with mode "replace"
RollbackWriteToolAppends(t) ==
    /\ tasks[t].op \in RollbackOps
    /\ tasks[t].pc = "rollback_write"
    /\ LET n == tasks[t].row[1].note_id IN
           notes' = NoteWritten(n, IF tasks[t].op = "rollback"
                                   THEN notes[n] \o <<NL>> \o tasks[t].row[1].original_content
                                   ELSE tasks[t].row[1].original_content)
    /\ tasks' = [Done(t, IF tasks[t].op = "rollback" THEN "ok" ELSE "200", "restored")
                    EXCEPT ![t].replaced = read_note(tasks[t].row[1].note_id)]
    /\ UNCHANGED <<now, writes, previews, applied, disk, changes, nextPid, nextRid, requests,
                   knownPids, knownRids, crashes, failed, tz>>

\* bear_client.update_note wrote original_content back and returned True
RollbackWrite(t) ==
    /\ tasks[t].op \in RollbackOps
    /\ tasks[t].pc = "rollback_write"
    /\ notes' = NoteWritten(tasks[t].row[1].note_id, tasks[t].row[1].original_content)
    /\ tasks' = [Done(t, IF tasks[t].op = "rollback" THEN "ok" ELSE "200", "restored")
                    EXCEPT ![t].replaced = read_note(tasks[t].row[1].note_id)]
    /\ UNCHANGED <<now, writes, previews, applied, disk, changes, nextPid, nextRid, requests,
                   knownPids, knownRids, crashes, failed, tz>>

\* a variant of the failure branch that ignores what update_note returned
RollbackWriteFailedIgnored(t) ==
    /\ tasks[t].op \in RollbackOps
    /\ tasks[t].pc = "rollback_write"
    /\ tasks' = Done(t, IF tasks[t].op = "rollback" THEN "ok" ELSE "200", "restored")
    /\ UNCHANGED <<now, notes, writes, previews, applied, disk, changes, nextPid, nextRid,
                   requests, knownPids, knownRids, crashes, failed, tz>>

\* bear_client.update_note returned False
RollbackWriteFailed(t) ==
    /\ tasks[t].op \in RollbackOps
    /\ tasks[t].pc = "rollback_write"
    /\ tasks' = Done(t, IF tasks[t].op = "rollback" THEN "error" ELSE "500",
                     IF tasks[t].op = "rollback" THEN "Failed to rollback changes"
                     ELSE "Failed to restore note")
    /\ UNCHANGED <<now, notes, writes, previews, applied, disk, changes, nextPid, nextRid,
                   requests, knownPids, knownRids, crashes, failed, tz>>

\* ------------------------------------------------------------------------
\* Environment
\* ------------------------------------------------------------------------
\* time passes
Tick ==
    /\ \E d \in TickSteps :
        /\ now + d <= MaxNow
        /\ now' = now + d
    /\ UNCHANGED <<notes, writes, previews, applied, disk, changes, nextPid, nextRid, tasks,
                   requests, knownPids, knownRids, crashes, failed, tz>>

\* the user edits the note in Bear
ExternalEdit(n, text) ==
    /\ n \in DOMAIN notes
    /\ notes[n] # text
    /\ notes' = [notes EXCEPT ![n] = text]
    /\ UNCHANGED <<now, writes, previews, applied, disk, changes, nextPid, nextRid, tasks,
                   requests, knownPids, knownRids, crashes, failed, tz>>

\* the process dies and is started again: every handler is lost, uncommitted
\* statements are lost, and Database.connect runs cleanup_expired and
\* cleanup_old_records (each followed by a commit) before any handler runs
CrashAndRestart ==
    /\ crashes < MaxCrashes
    /\ crashes' = crashes + 1
    /\ tasks' = [t \in Tasks |-> IdleTask]
    /\ changes' = 0
    /\ previews' = CleanupOldPreviews(cleanup_expired(disk.previews))
    /\ applied' = CleanupOldApplied(disk.applied)
    /\ disk' = [previews |-> previews', applied |-> applied']
    /\ UNCHANGED <<now, notes, writes, nextPid, nextRid, requests, knownPids, knownRids,
                   failed, tz>>

Next ==
    \/ \E t \in Tasks, n \in NoteIds \cup {MissingNoteId}, in \in ToolInputs :
           PreviewUpdate(t, n, in)
    \/ \E t \in Tasks : CreateCommit(t)
    \/ \E t \in Tasks, p \in Pids \cup {BogusId} : ApplyGetPreview(t, p)
    \/ \E t \in Tasks : ExpiredSelect(t)
    \/ \E t \in Tasks : MarkExpired(t)
    \/ \E t \in Tasks : ApplyWriteFailed(t)
    \/ \E t \in Tasks : ApplyWriteAndRecord(t)
    \/ \E t \in Tasks : RecordCommit(t)
    \/ \E t \in Tasks : ApplyStatusUpdate(t)
    \/ \E t \in Tasks : StatusCommit(t)
    \/ \E t \in Tasks : StatusChanges(t)
    \/ \E t \in Tasks, p \in Pids \cup {BogusId} : RejectUpdate(t, p)
    \/ \E t \in Tasks, op \in StatusOps, p \in Pids \cup {BogusId} : StatusGetPreview(t, op, p)
    \/ \E t \in Tasks : StatusRollbackSelect(t)
    \/ \E t \in Tasks : StatusReturn(t)
    \/ \E t \in Tasks, p \in Pids \cup {BogusId} : PageGetPreview(t, p)
    \/ \E t \in Tasks : PageRender(t)
    \/ \E t \in Tasks : HistoryPage(t)
    \/ \E t \in Tasks, op \in RollbackOps, r \in Rids \cup {BogusId} : RollbackSelect(t, op, r)
    \/ \E t \in Tasks : RollbackWrite(t)
    \/ \E t \in Tasks : RollbackWriteFailed(t)
    \/ \E t \in Tasks : Return(t)
    \/ \E n \in NoteIds, text \in ExternalTexts : ExternalEdit(n, text)
    \/ Tick
    \/ CrashAndRestart

Spec == Init /\ [][Next]_vars

\* ------------------------------------------------------------------------
\* bear_preview_update alone, over every kind of argument and several notes
\* ------------------------------------------------------------------------
HeaderText == <<HASH, "T", NL, "b">>
EditTexts == {InitialText, HeaderText}

EditInput(operation, target) == [operation |-> operation, target |-> target, content |-> <<"x">>]

EditInputs ==
    { EditInput("append", <<>>), EditInput("prepend", <<>>),
      EditInput("replace", <<>>), EditInput("replace", <<"a">>), EditInput("replace", <<"z">>),
      EditInput("insert_at_line", <<>>), EditInput("insert_at_line", <<"1">>),
      EditInput("insert_at_line", <<"x">>),
      EditInput("replace_section", <<>>), EditInput("replace_section", <<"T">>),
      EditInput("replace_section", <<"b">>),
      EditInput("delete", <<>>) }

EditInit ==
    /\ now = 0
    /\ notes \in [NoteIds -> EditTexts]
    /\ writes = [p \in Pids |-> 0]
    /\ previews = EmptyTable
    /\ applied = EmptyTable
    /\ disk = [previews |-> EmptyTable, applied |-> EmptyTable]
    /\ changes = 0
    /\ nextPid = 1
    /\ nextRid = 1
    /\ tasks = [t \in Tasks |-> IdleTask]
    /\ requests = 0
    /\ knownPids = {}
    /\ knownRids = {}
    /\ crashes = 0
    /\ failed = {}
    /\ tz = 0

EditNext ==
    \/ \E t \in Tasks, n \in NoteIds \cup {MissingNoteId}, in \in EditInputs :
           PreviewUpdate(t, n, in)
    \/ \E t \in Tasks : CreateCommit(t)
    \/ \E t \in Tasks : Return(t)
    \/ \E n \in NoteIds, text \in EditTexts : ExternalEdit(n, text)
    \/ Tick

EditSpec == EditInit /\ [][EditNext]_vars

\* ------------------------------------------------------------------------
\* bear_preview_update as a function of the note's text and its arguments:
\* every operation on texts of several shapes, nothing else running
\* ------------------------------------------------------------------------
TwoOccurrences == <<"a", "-", "b", "-", "a">>
TwoLines == <<"a", NL, "b">>
\* "# T\n1\n2\n# U\nx"
TwoSections == <<HASH, SPACE, "T", NL, "1", NL, "2", NL, HASH, SPACE, "U", NL, "x">>
\* "#T\n1\n##S\n2\n#U\n3"
NestedSections == <<HASH, "T", NL, "1", NL, HASH, HASH, "S", NL, "2", NL, HASH, "U", NL, "3">>
\* " ##T\n1\n#U\n2": the first header is indented
IndentedHeader == <<SPACE, HASH, HASH, "T", NL, "1", NL, HASH, "U", NL, "2">>

\* "#T\n1\n ##S\n2": the header of the subsection is indented
IndentedSubsection == <<HASH, "T", NL, "1", NL, SPACE, HASH, HASH, "S", NL, "2">>

TransformTexts ==
    { <<>>, InitialText, TwoOccurrences, TwoLines, TwoSections, NestedSections, IndentedHeader,
      IndentedSubsection }

TransformContents == {<<"X">>, <<>>, <<"p", NL, "q">>}

LineTargets == {<<"0">>, <<"-", "1">>, <<"1">>, <<"2">>, <<"3">>, <<"9">>, <<SPACE, "2">>, <<"x">>}
TextTargets == {<<"a">>, <<"a", "-">>, <<"z">>}
HeadingTargets == {<<"T">>, <<"S">>, <<"U">>, <<"Z">>}

\* the targets a caller sends with an operation
Sensible(in) ==
    \/ in.target = <<>>
    \/ in.operation = "replace" /\ in.target \in TextTargets
    \/ in.operation = "insert_at_line" /\ in.target \in LineTargets
    \/ in.operation = "replace_section" /\ in.target \in HeadingTargets

TransformInputs ==
    { in \in [operation : valid_operations \cup {"delete"},
              target : {<<>>} \cup LineTargets \cup TextTargets \cup HeadingTargets,
              content : TransformContents] : Sensible(in) }

\* the server has an empty database and one more call is made
TransformInit ==
    /\ now = 0
    /\ notes \in [NoteIds -> TransformTexts]
    /\ writes = [p \in Pids |-> 0]
    /\ previews = EmptyTable
    /\ applied = EmptyTable
    /\ disk = [previews |-> EmptyTable, applied |-> EmptyTable]
    /\ changes = 0
    /\ nextPid = 1
    /\ nextRid = 1
    /\ tasks = [t \in Tasks |-> IdleTask]
    /\ requests = MaxRequests - 1
    /\ knownPids = {}
    /\ knownRids = {}
    /\ crashes = 0
    /\ failed = {}
    /\ tz = 0

TransformNext ==
    \/ \E t \in Tasks, n \in NoteIds, in \in TransformInputs :
           PreviewUpdate(t, n, in)
    \/ \E t \in Tasks : CreateCommit(t)
    \/ \E t \in Tasks : Return(t)

TransformSpec == TransformInit /\ [][TransformNext]_vars

\* ------------------------------------------------------------------------
\* Database.connect on a database that earlier runs of the program left
\* behind: cleanup_expired, then cleanup_old_records, statement by statement
\* ------------------------------------------------------------------------
\* the local time at which the process starts
StartTime == RETENTION_DAYS * 24 * 60 + 2 * CLEANUP_HOURS * 60

\* UTC offsets of the machine: UTC-2, UTC, UTC+2
TimeZones == {0 - 120, 0, 120}

\* how long before the start a preview was created: just now, just under and
\* just over 24 hours before its expiry, an hour under, three minutes over and
\* an hour over the retention period
PreviewAges ==
    { 5, CLEANUP_HOURS * 60 + expiry_minutes - 1, CLEANUP_HOURS * 60 + expiry_minutes + 1,
      RETENTION_DAYS * 24 * 60 - 60, RETENTION_DAYS * 24 * 60 + 3,
      RETENTION_DAYS * 24 * 60 + 60 }

\* how long before the start a change was applied: in the minute its preview
\* was created, or three minutes under the retention period
AppliedAges == PreviewAges \cup {RETENTION_DAYS * 24 * 60 - 3}

Statuses == {"pending", "applied", "rejected", "expired"}

\* the row create_preview wrote age minutes before the start, on a machine at
\* offset z: created_at is CURRENT_TIMESTAMP (UTC), expires_at is local time
OldPreview(age, status, z) ==
    [note_id |-> "n1", operation |-> "append", target |-> <<>>,
     original_content |-> InitialText, new_content |-> InitialText \o <<NL, "x">>,
     status |-> status, created_at |-> StartTime - z - age,
     expires_at |-> StartTime - age + expiry_minutes]

\* the row create_applied_change wrote for preview p age minutes before the start
OldApplied(p, age, z) ==
    [preview_id |-> p, note_id |-> "n1", original_content |-> InitialText,
     applied_at |-> StartTime - z - age]

\* the tables an earlier run can have left: any subset of the ids, a change is
\* applied after its preview was created and before the preview expires
OldPreviewTables(z) ==
    UNION { [ids -> {OldPreview(a, st, z) : a \in PreviewAges, st \in Statuses}] :
            ids \in SUBSET Pids }

OldAppliedTables(pv, z) ==
    UNION { { ap \in [ids -> {OldApplied(p, a, z) : p \in Pids, a \in AppliedAges}] :
                \A r \in ids :
                    /\ ap[r].preview_id = r
                    /\ r \in DOMAIN pv =>
                           ap[r].applied_at - pv[r].created_at \in 0..expiry_minutes } :
            ids \in SUBSET Rids }

ConnectTask == [IdleTask EXCEPT !.op = "connect", !.pc = "cleanup_expired"]

SweepInit ==
    /\ now = StartTime
    /\ tz \in TimeZones
    /\ notes = [n \in NoteIds |-> InitialText]
    /\ writes = [p \in Pids |-> 0]
    /\ previews \in OldPreviewTables(tz)
    /\ applied \in OldAppliedTables(previews, tz)
    /\ disk = [previews |-> previews, applied |-> applied]
    /\ changes = 0
    /\ nextPid = MaxPreviews + 1
    /\ nextRid = MaxApplied + 1
    /\ tasks = [t \in Tasks |-> IF t = 1 THEN ConnectTask ELSE IdleTask]
    /\ requests = 0
    /\ knownPids = {}
    /\ knownRids = {}
    /\ crashes = 0
    /\ failed = {}

\* cleanup_expired: its DELETE and its commit
ConnectCleanupExpired(t) ==
    /\ Running(t, "connect", "cleanup_expired")
    /\ previews' = cleanup_expired(previews)
    /\ changes' = Cardinality(DOMAIN previews) - Cardinality(DOMAIN previews')
    /\ disk' = [previews |-> previews', applied |-> applied]
    /\ tasks' = [tasks EXCEPT ![t].pc = "cleanup_applied"]
    /\ UNCHANGED <<now, notes, writes, applied, nextPid, nextRid, requests, knownPids,
                   knownRids, crashes, failed, tz>>

\* cleanup_old_records: DELETE FROM applied_changes
ConnectDeleteApplied(t) ==
    /\ Running(t, "connect", "cleanup_applied")
    /\ applied' = CleanupOldApplied(applied)
    /\ changes' = Cardinality(DOMAIN applied) - Cardinality(DOMAIN applied')
    /\ tasks' = [tasks EXCEPT ![t].pc = "cleanup_previews"]
    /\ UNCHANGED <<now, notes, writes, previews, disk, nextPid, nextRid, requests, knownPids,
                   knownRids, crashes, failed, tz>>

\* cleanup_old_records: DELETE FROM previews and the commit; connect returns
ConnectDeletePreviews(t) ==
    /\ Running(t, "connect", "cleanup_previews")
    /\ previews' = CleanupOldPreviews(previews)
    /\ changes' = Cardinality(DOMAIN previews) - Cardinality(DOMAIN previews')
    /\ disk' = [previews |-> previews', applied |-> applied]
    /\ tasks' = [tasks EXCEPT ![t].pc = "done"]
    /\ UNCHANGED <<now, notes, writes, applied, nextPid, nextRid, requests, knownPids,
                   knownRids, crashes, failed, tz>>

SweepNext ==
    \/ \E t \in Tasks : ConnectCleanupExpired(t)
    \/ \E t \in Tasks : ConnectDeleteApplied(t)
    \/ \E t \in Tasks : ConnectDeletePreviews(t)

SweepSpec == SweepInit /\ [][SweepNext]_vars

\* ------------------------------------------------------------------------
\* The process left running for two days: previews are made and looked at in
\* the browser, hours pass, and the process is never restarted
\* ------------------------------------------------------------------------
\* the moments at which the running process is looked at: a minute after the
\* first preview's expiry, a day later, and the end of the watch
UptimeClock == {expiry_minutes + 1, CLEANUP_HOURS * 60 + expiry_minutes + 1, MaxUptime}

\* hours pass while the process runs
LongTick ==
    /\ \E later \in UptimeClock :
        /\ later > now
        /\ now' = later
    /\ UNCHANGED <<notes, writes, previews, applied, disk, changes, nextPid, nextRid, tasks,
                   requests, knownPids, knownRids, crashes, failed, tz>>

\* the steps handler t takes once its request has been accepted
HandlerStep(t) ==
    \/ CreateCommit(t)
    \/ ExpiredSelect(t)
    \/ MarkExpired(t)
    \/ StatusCommit(t)
    \/ StatusChanges(t)
    \/ PageRender(t)
    \/ Return(t)

UptimeNext ==
    \/ \E t \in Tasks, n \in NoteIds, in \in ToolInputs : PreviewUpdate(t, n, in)
    \/ \E t \in Tasks, p \in Pids : PageGetPreview(t, p)
    \/ \E t \in Tasks : CreateCommit(t)
    \/ \E t \in Tasks : ExpiredSelect(t)
    \/ \E t \in Tasks : MarkExpired(t)
    \/ \E t \in Tasks : StatusCommit(t)
    \/ \E t \in Tasks : StatusChanges(t)
    \/ \E t \in Tasks : PageRender(t)
    \/ \E t \in Tasks : Return(t)
    \/ LongTick

\* the event loop runs every handler that can take a step, and time passes
UptimeSpec ==
    /\ Init
    /\ [][UptimeNext]_vars
    /\ \A t \in Tasks : WF_vars(HandlerStep(t))
    /\ WF_vars(LongTick)

\* ------------------------------------------------------------------------
\* Properties
\* ------------------------------------------------------------------------
\* the applied_changes rows of preview p
AppliedFor(p) == {r \in DOMAIN applied : applied[r].preview_id = p}

\* the step is taken by handler t
Stepped(t) == crashes' = crashes /\ tasks'[t] # tasks[t]

\* handler t is a finished call of op on preview p that answered with code
Answered(t, op, p, code) ==
    /\ tasks[t].op = op
    /\ tasks[t].id = p
    /\ tasks[t].pc = "done"
    /\ tasks[t].result.code = code

\* handler t is an apply of preview p that read the preview as pending
ApplyThatSawPending(t, p) ==
    /\ tasks[t].op = "apply"
    /\ tasks[t].id = p
    /\ tasks[t].preview # <<>>
    /\ tasks[t].preview[1].status = "pending"

\* C1: two POST /api/apply calls that overlap on one pending, unexpired preview
\* end with exactly one applied_changes row for it and exactly one note-store
\* write: whenever two finished apply handlers both read the preview as
\* pending and one of them answered 200, the preview has one row and one write.
C1_ConcurrentApplyOnce ==
    \A t1, t2 \in Tasks, p \in Pids :
        ( /\ t1 # t2
          /\ crashes = 0
          /\ ApplyThatSawPending(t1, p) /\ tasks[t1].pc = "done"
          /\ ApplyThatSawPending(t2, p) /\ tasks[t2].pc = "done"
          /\ tasks[t1].result.code = "200" )
        => (Cardinality(AppliedFor(p)) = 1 /\ writes[p] = 1)

\* C2: a committed status that is applied, rejected or expired never changes
\* again: in every step, a preview whose committed status is not pending keeps
\* that status for as long as its row exists.
C2_TerminalStatusFinal ==
    [][\A p \in DOMAIN disk.previews :
          (disk.previews[p].status # "pending" /\ p \in DOMAIN disk'.previews)
          => disk'.previews[p].status = disk.previews[p].status]_vars

\* C3: an applied_changes row exists for a preview exactly when the preview's
\* status is applied, in every state in which no apply handler is between its
\* INSERT and the end of its status update.
ApplyMidway(p) ==
    \E t \in Tasks : /\ tasks[t].op = "apply"
                     /\ tasks[t].id = p
                     /\ tasks[t].pc \in {"record_commit", "status_update",
                                         "status_commit", "status_changes"}

C3_AppliedIffRecorded ==
    \A p \in DOMAIN previews :
        ~ApplyMidway(p) => ((AppliedFor(p) # {}) <=> (previews[p].status = "applied"))

\* C4: at most one applied_changes row per preview ever exists, whatever
\* sequence of apply calls, failures and restarts has happened.
C4_AtMostOneRecord == \A p \in Pids : Cardinality(AppliedFor(p)) <= 1

\* C5: the program writes the note store only in an apply of a preview that is,
\* at that moment, pending and not past expires_at, or in a rollback of an
\* existing rollback id; no other handler step changes the note store.
C5_WritesOnlyOnApprovedOrRollback ==
    [][ /\ \A p \in Pids :
             writes'[p] # writes[p]
             => ( /\ p \in DOMAIN previews
                  /\ previews[p].status = "pending"
                  /\ ~(previews[p].expires_at < now) )
        /\ \A t \in Tasks :
             (Stepped(t) /\ notes' # notes)
             => \/ tasks[t].op = "apply" /\ writes' # writes
                \/ tasks[t].op \in RollbackOps /\ tasks[t].id \in DOMAIN applied
      ]_vars

\* handler t read, in its first statement, a preview that was pending and
\* already past its expires_at
SawPendingPastExpiry(t) ==
    /\ tasks[t].preview # <<>>
    /\ tasks[t].preview[1].status = "pending"
    /\ tasks[t].preview[1].expires_at < tasks[t].began

\* C6: POST /api/apply on a preview that is pending but already past its
\* expires_at when the call reads it performs no note-store write and records
\* no AppliedChange, in any step of the call.
C6_NoApplyPastExpiry ==
    [][\A t \in Tasks :
          (tasks[t].op = "apply" /\ SawPendingPastExpiry(t) /\ Stepped(t))
          => (writes' = writes /\ applied' = applied)]_vars

\* C7: POST /api/reject takes effect only on a preview that is pending and not
\* past expires_at: a status becomes rejected only from such a preview.
C7_RejectOnlyPending ==
    [][\A p \in DOMAIN previews :
          (p \in DOMAIN previews' /\ previews'[p].status = "rejected"
             /\ previews[p].status # "rejected")
          => (previews[p].status = "pending" /\ ~(previews[p].expires_at < now))]_vars

\* C8: bear_get_status on a preview that is pending and past its expires_at
\* when the call reads it reports expired.
C8_GetStatusReportsExpired ==
    \A t \in Tasks :
        ( /\ tasks[t].op = "get_status"
          /\ tasks[t].pc = "done"
          /\ tasks[t].result.code = "200"
          /\ SawPendingPastExpiry(t) )
        => tasks[t].result.status = "expired"

\* C9: the expiry check-and-mark never overwrites a status that has become
\* applied or rejected: whichever handler runs it, a status becomes expired
\* only from pending.
C9_ExpiredOnlyFromPending ==
    [][\A p \in DOMAIN previews :
          (p \in DOMAIN previews' /\ previews'[p].status = "expired"
             /\ previews[p].status # "expired")
          => previews[p].status = "pending"]_vars

\* C10: of an apply and a reject that overlap on one pending preview exactly
\* one takes effect: once the reject has answered success, the apply does not
\* write the note store or record an AppliedChange.
C10_NoWriteAfterRejectSucceeded ==
    [][\A t, u \in Tasks, p \in Pids :
          (tasks[t].op = "apply" /\ tasks[t].id = p /\ Stepped(t)
             /\ Answered(u, "reject", p, "200"))
          => (writes'[p] = writes[p] /\ applied' = applied)]_vars

\* C11: when the note-store write inside POST /api/apply reports failure, the
\* call answers 500 "Failed to update note" and that step changes no preview
\* row, no applied_changes row and nothing committed; and an apply issued
\* after such a failure is refused only because the preview it read is no
\* longer pending or has expired, never because of the earlier failure.
C11_WriteFailureKeepsPending ==
    [][\A t \in Tasks :
          /\ ( /\ Stepped(t)
                /\ Running(t, "apply", "expired_check")
                /\ tasks'[t].pc = "done" )
             => ( /\ tasks'[t].result.code = "500"
                  /\ tasks'[t].result.detail = "Failed to update note"
                  /\ previews' = previews
                  /\ applied' = applied
                  /\ disk' = disk )
          /\ ( /\ Stepped(t)
                /\ tasks'[t].op = "apply"
                /\ tasks'[t].retry
                /\ tasks'[t].pc = "done"
                /\ tasks'[t].result.code = "400" )
             => \/ tasks'[t].preview[1].status # "pending"
                \/ RowExpired(tasks'[t].row)]_vars

\* C11 witness: an apply of preview p, issued after an apply of p had failed on
\* its note-store write, has answered 200 and p is applied with a record
C11_RetrySucceeded ==
    \E t \in Tasks, p \in Pids :
        /\ Answered(t, "apply", p, "200")
        /\ tasks[t].retry
        /\ p \in DOMAIN previews
        /\ previews[p].status = "applied"
        /\ AppliedFor(p) # {}

\* C12: a POST /api/apply that answers 200 for a preview it read as pending and
\* unexpired has written the preview's stored new_content to the note of its
\* note_id, has inserted an applied_changes row carrying the preview's id,
\* note_id and original_content, returns that row's rollback_id, and leaves
\* the preview's status applied when it answers.
C12_ApplyEffects ==
    [][\A t \in Tasks :
          ( /\ tasks[t].op = "apply"
            /\ tasks[t].id \in DOMAIN previews
            /\ Stepped(t)
            /\ ~SawPendingPastExpiry(t) ) =>
             LET p == tasks[t].id
                 r == tasks'[t].result.rollback_id
             IN  /\ writes'[p] # writes[p]
                    => ( /\ notes'[previews[p].note_id] = previews[p].new_content
                         /\ r \in DOMAIN applied' /\ r \notin DOMAIN applied
                         /\ applied'[r].preview_id = p
                         /\ applied'[r].note_id = previews[p].note_id
                         /\ applied'[r].original_content = previews[p].original_content )
                 /\ (tasks'[t].pc = "done" /\ tasks'[t].result.code = "200")
                    => ( /\ writes[p] > 0
                         /\ r \in DOMAIN applied
                         /\ applied[r].preview_id = p
                         /\ previews'[p].status = "applied" )]_vars

\* handler t is a rollback (tool or POST /api/restore) that has just reported
\* success in this step
RollbackSucceeds(t) ==
    /\ Stepped(t)
    /\ tasks[t].op \in RollbackOps
    /\ tasks[t].pc = "rollback_write"
    /\ tasks'[t].result.code \in {"ok", "200"}

\* C13: a rollback that reports success leaves the note of the applied change
\* holding exactly the original_content its preview captured at creation,
\* whatever the note held just before.
C13_RollbackRestoresOriginal ==
    [][\A t \in Tasks :
          RollbackSucceeds(t) =>
             LET r == tasks[t].id IN
                 /\ r \in DOMAIN applied
                 /\ applied[r].preview_id \in DOMAIN previews
                 /\ notes'[applied[r].note_id] =
                        previews[applied[r].preview_id].original_content]_vars

\* C13 witness: a rollback has succeeded on a note that, just before, held
\* neither the original nor the applied text (it was edited in between), and
\* the note now holds the original
C13_RolledBackOverEdit ==
    \E t \in Tasks :
        /\ tasks[t].op \in RollbackOps
        /\ tasks[t].pc = "done"
        /\ tasks[t].result.code \in {"ok", "200"}
        /\ tasks[t].id \in DOMAIN applied
        /\ applied[tasks[t].id].preview_id \in DOMAIN previews
        /\ LET a == applied[tasks[t].id]
               pv == previews[a.preview_id]
           IN  /\ tasks[t].replaced # <<pv.original_content>>
               /\ tasks[t].replaced # <<pv.new_content>>
               /\ notes[a.note_id] = pv.original_content

\* C14: every rollback of one rollback id that reports success leaves the note
\* holding the same text: the stored original_content of that id never
\* changes, each successful rollback leaves the note equal to it and touches
\* no other note, and a rollback of a note that already holds it changes
\* nothing in the note store.
C14_RollbackIdempotent ==
    [][/\ \A r \in DOMAIN applied \cap DOMAIN applied' :
             applied'[r].original_content = applied[r].original_content
       /\ \A t \in Tasks :
             RollbackSucceeds(t) =>
                LET r == tasks[t].id
                    n == applied[r].note_id
                IN  /\ tasks[t].row[1].original_content = applied[r].original_content
                    /\ notes'[n] = applied[r].original_content
                    /\ \A m \in DOMAIN notes \ {n} : notes'[m] = notes[m]
                    /\ notes[n] = applied[r].original_content => notes' = notes]_vars

\* C14 witness: two rollbacks of the same rollback id have both reported
\* success, one of them on a note that already held the original, and the note
\* holds the original
C14_RolledBackTwice ==
    \E t1, t2 \in Tasks :
        /\ t1 # t2
        /\ tasks[t1].op \in RollbackOps /\ tasks[t2].op \in RollbackOps
        /\ tasks[t1].pc = "done" /\ tasks[t2].pc = "done"
        /\ tasks[t1].result.code \in {"ok", "200"}
        /\ tasks[t2].result.code \in {"ok", "200"}
        /\ tasks[t1].id = tasks[t2].id
        /\ tasks[t1].id \in DOMAIN applied
        /\ LET a == applied[tasks[t1].id]
           IN  /\ tasks[t2].replaced = <<a.original_content>>
               /\ notes[a.note_id] = a.original_content

\* C15: no step of a rollback (tool or POST /api/restore) changes a row of
\* previews or applied_changes, in the connection or committed, whether its
\* note-store write succeeds or fails; and a rollback whose write was not
\* carried out answers with a failure.
C15_RollbackFrame ==
    [][\A t \in Tasks :
          /\ (Stepped(t) /\ (tasks[t].op \in RollbackOps \/ tasks'[t].op \in RollbackOps))
             => (previews' = previews /\ applied' = applied /\ disk' = disk)
          /\ ( /\ Stepped(t)
                /\ tasks[t].op \in RollbackOps
                /\ tasks[t].pc = "rollback_write"
                /\ tasks'[t].replaced = <<>> )
             => ( /\ tasks'[t].pc = "done"
                  /\ tasks'[t].result.code \in {"error", "500"}
                  /\ tasks'[t].result.detail \in {"Failed to rollback changes",
                                                   "Failed to restore note"}
                  /\ notes' = notes )]_vars

\* C15 witness: of two rollbacks of one applied change, one has succeeded and
\* the other has failed on its write, and the change's record and its preview
\* are still there
C15_RollbackFailedAndSucceeded ==
    \E t1, t2 \in Tasks :
        /\ tasks[t1].op \in RollbackOps /\ tasks[t2].op \in RollbackOps
        /\ tasks[t1].pc = "done" /\ tasks[t2].pc = "done"
        /\ tasks[t1].result.code \in {"ok", "200"}
        /\ tasks[t2].result.code \in {"error", "500"}
        /\ tasks[t2].result.detail \in {"Failed to rollback changes", "Failed to restore note"}
        /\ tasks[t1].id = tasks[t2].id
        /\ tasks[t1].id \in DOMAIN applied
        /\ applied[tasks[t1].id].preview_id \in DOMAIN previews

\* record k is a handler of bear_get_status, GET /api/status, POST /api/apply,
\* POST /api/reject, bear_rollback_change or POST /api/restore that was called
\* with an id that names no record
Unresolved(k) ==
    /\ k.op \in {"apply", "reject"} \cup StatusOps \cup RollbackOps
    /\ k.id = BogusId

\* the answer says that the record was not found (whatever the status code that
\* carries it)
NotFoundAnswer(res) ==
    /\ res.code \in {"404", "500", "error"}
    /\ res.detail \in {"Preview not found", "404: Preview not found", "Rollback not found"}

\* C16: getStatus, apply, reject and rollback called with an id that resolves to
\* no record answer with a not-found error, and none of their steps changes a
\* row of previews, a row of applied_changes or the note store.
C16_NotFoundNoEffect ==
    [][\A t \in Tasks :
          (Stepped(t) /\ Unresolved(tasks'[t])) =>
              /\ tasks'[t].pc = "done" => NotFoundAnswer(tasks'[t].result)
              /\ previews' = previews
              /\ applied' = applied
              /\ notes' = notes]_vars

\* C17: once a row of previews exists, its note_id, operation, target,
\* original_content, new_content, created_at and expires_at never change, in
\* the connection or committed: a step changes at most the status of a row
\* that exists before and after it.
C17_PreviewImmutable ==
    [][/\ \A p \in DOMAIN previews \cap DOMAIN previews' :
             [previews'[p] EXCEPT !.status = previews[p].status] = previews[p]
       /\ \A p \in DOMAIN disk.previews \cap DOMAIN disk'.previews :
             [disk'.previews[p] EXCEPT !.status = disk.previews[p].status]
                 = disk.previews[p]]_vars

\* C17 witness: a preview has been applied at a later time than it was made,
\* the note no longer holds the text the preview captured, and the preview
\* still carries that text and its first expiry
C17_AppliedPreviewIntact ==
    \E p \in DOMAIN previews :
        /\ previews[p].status = "applied"
        /\ now > previews[p].created_at
        /\ previews[p].expires_at = previews[p].created_at + expiry_minutes
        /\ previews[p].original_content = InitialText
        /\ notes[previews[p].note_id] # previews[p].original_content
        /\ p \in DOMAIN disk.previews
        /\ disk.previews[p] = previews[p]

\* the reason for which bear_preview_update must fail on note note_id with
\* arguments in, in the state it is called in; "" if it must not fail
FailureReason(note_id, in) ==
    LET text == notes[note_id]
        headers == {i \in 1..Len(SplitLines(text)) :
                       /\ IsHeaderLine(SplitLines(text)[i])
                       /\ Contains(SplitLines(text)[i], in.target)}
    IN  IF in.operation \notin valid_operations THEN "Invalid operation"
        ELSE IF note_id \notin DOMAIN notes THEN "Could not read note"
        ELSE IF in.operation = "replace" /\ in.target # <<>> /\ ~Contains(text, in.target)
            THEN "Target text not found in note"
        ELSE IF in.operation \in {"insert_at_line", "replace_section"} /\ in.target = <<>>
            THEN "Invalid operation or missing target parameter"
        ELSE IF in.operation = "insert_at_line" /\ ~IsInt(in.target)
            THEN "For insert_at_line, target must be a line number"
        ELSE IF in.operation = "replace_section" /\ headers = {}
            THEN "Section not found in note"
        ELSE ""

\* C18: a bear_preview_update that must fail (unknown operation, note not
\* found, replace target absent, non-integer insert_at_line target, missing
\* target for insert_at_line or replace_section, no matching section) answers
\* with an error carrying that reason, inserts no preview, and changes neither
\* table, nothing committed and no note.
C18_FailedEditNoEffect ==
    [][\A t \in Tasks, n \in NoteIds \cup {MissingNoteId}, in \in EditInputs :
          (PreviewUpdate(t, n, in) /\ FailureReason(n, in) # "") =>
              /\ tasks'[t].pc = "done"
              /\ tasks'[t].result.code = "error"
              /\ tasks'[t].result.detail = FailureReason(n, in)
              /\ previews' = previews
              /\ applied' = applied
              /\ disk' = disk
              /\ notes' = notes
              /\ nextPid' = nextPid]_vars

\* C18 witness: two calls have failed, one for an absent replace target and one
\* for a section that does not exist, and no preview has been made
C18_TwoEditsFailed ==
    \E t1, t2 \in Tasks :
        /\ tasks[t1].op = "preview_update" /\ tasks[t1].pc = "done"
        /\ tasks[t1].result.detail = "Target text not found in note"
        /\ tasks[t2].op = "preview_update" /\ tasks[t2].pc = "done"
        /\ tasks[t2].result.detail = "Section not found in note"
        /\ previews = EmptyTable
        /\ disk.previews = EmptyTable
        /\ nextPid = 1

\* C19: a bear_preview_update that has no reason to fail adds exactly one
\* preview, pending, holding the note text read in that step as
\* original_content and the transformation's result as new_content, and does
\* not write the note; the row stays as inserted until the commit, the call
\* returns that row's id, a get_preview of the returned id then finds the row
\* pending with the given operation, and a status call that read the row as
\* pending and answers before its expiry reports pending.
C19_SuccessfulEditAddsPending ==
    [][/\ \A t \in Tasks, n \in NoteIds \cup {MissingNoteId}, in \in ToolInputs \cup EditInputs :
             (/\ tasks[t].op = "idle" /\ tasks'[t].op = "preview_update"
              /\ PreviewUpdate(t, n, in)
              /\ FailureReason(n, in) = "") =>
                 /\ nextPid \notin DOMAIN previews
                 /\ DOMAIN previews' = DOMAIN previews \cup {nextPid}
                 /\ \A q \in DOMAIN previews : previews'[q] = previews[q]
                 /\ previews'[nextPid].status = "pending"
                 /\ previews'[nextPid].note_id = n
                 /\ previews'[nextPid].operation = in.operation
                 /\ previews'[nextPid].target = in.target
                 /\ previews'[nextPid].original_content = notes[n]
                 /\ previews'[nextPid].new_content =
                        Transform(notes[n], in.operation, in.target, in.content)[2]
                 /\ Transform(notes[n], in.operation, in.target, in.content)[1] = "ok"
                 /\ tasks'[t].pc = "create_commit"
                 /\ tasks'[t].id = nextPid
                 /\ notes' = notes /\ writes' = writes /\ applied' = applied
       /\ \A t \in Tasks :
             (Running(t, "preview_update", "create_commit") /\ crashes' = crashes) =>
                 /\ tasks[t].id \in DOMAIN previews'
                 /\ previews'[tasks[t].id] = previews[tasks[t].id]
                 /\ Stepped(t) =>
                       /\ tasks'[t].pc = "done"
                       /\ tasks'[t].result.code = "ok"
                       /\ tasks'[t].result.preview_id = tasks[t].id
                       /\ get_preview(tasks[t].id) = <<previews'[tasks[t].id]>>
                       /\ previews'[tasks[t].id].status = "pending"
                       /\ disk'.previews = previews'
                       /\ notes' = notes /\ writes' = writes /\ applied' = applied
       /\ \A t \in Tasks :
             (/\ tasks[t].op \in StatusOps
              /\ Stepped(t)
              /\ tasks'[t].pc = "done"
              /\ tasks[t].preview # <<>>
              /\ tasks[t].preview[1].status = "pending"
              /\ now <= tasks[t].preview[1].expires_at) =>
                 /\ tasks'[t].result.code = "200"
                 /\ tasks'[t].result.status = "pending"
                 /\ tasks[t].id \in DOMAIN previews
                 /\ previews[tasks[t].id].operation = tasks[t].preview[1].operation]_vars

\* C19 witness: a bear_preview_update returned the id of a pending preview that
\* holds the note's text and the appended text, the note is as it was, and a
\* status call on that id has reported pending
C19_CreatedAndSeenPending ==
    \E t1, t2 \in Tasks, p \in DOMAIN previews :
        /\ Answered(t1, "preview_update", p, "ok")
        /\ tasks[t1].result.preview_id = p
        /\ previews[p].status = "pending"
        /\ previews[p].operation = "append"
        /\ previews[p].original_content = notes[previews[p].note_id]
        /\ previews[p].new_content = notes[previews[p].note_id] \o <<NL>> \o <<"x">>
        /\ tasks[t2].op \in StatusOps /\ tasks[t2].id = p /\ tasks[t2].pc = "done"
        /\ tasks[t2].result.status = "pending"

\* handler t is a POST /api/reject whose UPDATE met a pending preview that had
\* not expired
RejectOfPending(t) ==
    /\ tasks[t].op = "reject"
    /\ tasks[t].preview # <<>>
    /\ tasks[t].preview[1].status = "pending"
    /\ tasks[t].began <= tasks[t].preview[1].expires_at

\* C20: a POST /api/reject on a pending, unexpired preview changes that row's
\* status to rejected and nothing else of it, no step of the handler writes a
\* note or changes applied_changes, and the preview's status is rejected when
\* the handler answers 200 before the preview's expiry.
C20_RejectEffects ==
    [][/\ \A t \in Tasks, p \in DOMAIN previews :
             (/\ RejectUpdate(t, p)
              /\ previews[p].status = "pending"
              /\ now <= previews[p].expires_at) =>
                 /\ previews' = [previews EXCEPT ![p].status = "rejected"]
                 /\ notes' = notes /\ writes' = writes /\ applied' = applied
       /\ \A t \in Tasks :
             (RejectOfPending(t) /\ Stepped(t)) =>
                 /\ notes' = notes /\ writes' = writes /\ applied' = applied
                 /\ ( /\ tasks'[t].pc = "done"
                      /\ tasks'[t].result.code = "200"
                      /\ now <= tasks[t].preview[1].expires_at )
                       => previews'[tasks[t].id].status = "rejected"]_vars

\* C21: a bear_get_status or GET /api/status that read the preview as applied
\* answers with the rollback_id of an applied_changes row whose preview_id is
\* that preview; one that read any other status, or that reports any other
\* status, answers with no rollback_id.
C21_StatusRollbackId ==
    [][\A t \in Tasks :
          ( /\ tasks[t].op \in StatusOps
            /\ Stepped(t)
            /\ tasks'[t].pc = "done"
            /\ tasks[t].preview # <<>> ) =>
             LET r == tasks'[t].result.rollback_id IN
             /\ tasks'[t].result.code = "200"
             /\ tasks[t].preview[1].status = "applied" =>
                   /\ r \in DOMAIN applied
                   /\ applied[r].preview_id = tasks[t].id
                   /\ tasks'[t].result.status = "applied"
             /\ tasks[t].preview[1].status # "applied" => r = 0
             /\ tasks'[t].result.status # "applied" => r = 0]_vars

\* C21 witness: one status call has answered applied with the rollback_id of the
\* preview's applied_changes row, and another has answered for a preview that
\* is not applied, without a rollback_id
C21_StatusWithAndWithoutId ==
    \E t1, t2 \in Tasks :
        /\ tasks[t1].op \in StatusOps /\ tasks[t1].pc = "done"
        /\ tasks[t1].result.status = "applied"
        /\ tasks[t1].result.rollback_id \in DOMAIN applied
        /\ applied[tasks[t1].result.rollback_id].preview_id = tasks[t1].id
        /\ tasks[t2].op \in StatusOps /\ tasks[t2].pc = "done"
        /\ tasks[t2].result.code = "200"
        /\ tasks[t2].result.status \in {"pending", "rejected", "expired"}
        /\ tasks[t2].result.rollback_id = 0

\* C22: a POST /api/reject whose id matches no preview answers 404, and no step
\* of it changes a preview row, an applied_changes row or a note.
C22_RejectUnknownIs404 ==
    [][\A t \in Tasks :
          ( /\ tasks[t].op = "reject"
            /\ tasks[t].preview = <<>>
            /\ Stepped(t) ) =>
             /\ previews' = previews
             /\ applied' = applied
             /\ notes' = notes
             /\ tasks'[t].pc = "done" => tasks'[t].result.code = "404"]_vars

\* C23: a POST /api/apply answers 404 when get_preview finds no preview of that
\* id, 400 when the preview it reads is not pending, 400 (or the 500 of a
\* failed write) when it is pending and already past its expires_at, 500
\* when and only when update_note reports failure, and 200 only when
\* the preview it read was pending and not past its expires_at and the note
\* has been written.
C23_ApplyResponses ==
    [][\A t \in Tasks :
          ( /\ tasks'[t].op = "apply"
            /\ Stepped(t)
            /\ tasks'[t].pc = "done" ) =>
             LET k == tasks'[t]
                 code == tasks'[t].result.code
             IN  /\ code \in {"404", "400", "500", "200"}
                 /\ k.preview = <<>> <=> code = "404"
                 /\ (k.preview # <<>> /\ k.preview[1].status # "pending") => code = "400"
                 /\ SawPendingPastExpiry(t) => code \in {"400", "500"}
                 /\ Running(t, "apply", "expired_check") <=> code = "500"
                 /\ code = "200" =>
                       /\ k.preview # <<>>
                       /\ k.preview[1].status = "pending"
                       /\ ~(k.preview[1].expires_at < k.began)
                       /\ writes[k.id] > 0]_vars

\* C24: the DELETE of cleanup_expired removes exactly the previews that are
\* pending and whose expires_at is more than 24 hours before the present; every
\* other preview row, every applied_changes row and every note is as before,
\* and the result is committed.
C24_SweepExpiredExact ==
    [][\A t \in Tasks :
          (Running(t, "connect", "cleanup_expired") /\ Stepped(t)) =>
             /\ DOMAIN previews' \subseteq DOMAIN previews
             /\ \A p \in DOMAIN previews :
                   /\ p \notin DOMAIN previews' <=>
                         ( /\ previews[p].status = "pending"
                           /\ now - previews[p].expires_at > CLEANUP_HOURS * 60 )
                   /\ p \in DOMAIN previews' => previews'[p] = previews[p]
             /\ applied' = applied
             /\ notes' = notes
             /\ disk'.previews = previews'
             /\ disk'.applied = applied]_vars

\* C24 witness: cleanup_expired has deleted one preview and has kept a preview
\* marked expired whose expires_at is more than 24 hours past
C24_SweptOneKeptOne ==
    \E t \in Tasks, p \in DOMAIN previews :
        /\ Running(t, "connect", "cleanup_applied")
        /\ changes = 1
        /\ previews[p].status = "expired"
        /\ now - previews[p].expires_at > CLEANUP_HOURS * 60

\* C25: cleanup_old_records first deletes exactly the applied_changes rows
\* applied more than RETENTION_DAYS days before the present and touches no
\* preview, then deletes exactly the previews created more than RETENTION_DAYS
\* days before the present, whatever their status, and touches no
\* applied_changes row; every row that stays is unchanged.
C25_SweepRetentionExact ==
    [][\A t \in Tasks :
          /\ (Running(t, "connect", "cleanup_applied") /\ Stepped(t)) =>
                /\ DOMAIN applied' \subseteq DOMAIN applied
                /\ \A r \in DOMAIN applied :
                      /\ r \notin DOMAIN applied' <=>
                            CURRENT_TIMESTAMP - applied[r].applied_at > RETENTION_DAYS * 24 * 60
                      /\ r \in DOMAIN applied' => applied'[r] = applied[r]
                /\ previews' = previews
          /\ (Running(t, "connect", "cleanup_previews") /\ Stepped(t)) =>
                /\ DOMAIN previews' \subseteq DOMAIN previews
                /\ \A p \in DOMAIN previews :
                      /\ p \notin DOMAIN previews' <=>
                            CURRENT_TIMESTAMP - previews[p].created_at > RETENTION_DAYS * 24 * 60
                      /\ p \in DOMAIN previews' => previews'[p] = previews[p]
                /\ applied' = applied]_vars

\* bear_preview_update is called by handler t on note n with arguments in, in
\* this step, and stores a preview
EditStored(t, n, in) ==
    /\ tasks[t].op = "idle"
    /\ tasks'[t].pc = "create_commit"
    /\ PreviewUpdate(t, n, in)

\* C26: replace with a target that occurs in the note stores as new_content
\* the original with its first occurrence of the target replaced by the
\* content and everything after that occurrence as it was.
C26_ReplaceFirstOnly ==
    [][\A t \in Tasks, n \in NoteIds, in \in TransformInputs :
          ( /\ EditStored(t, n, in)
            /\ in.operation = "replace"
            /\ in.target # <<>> ) =>
             LET original == notes[n]
                 i == FirstOccurrence(original, in.target)
             IN  /\ i > 0
                 /\ previews'[nextPid].new_content =
                        SubSeq(original, 1, i - 1) \o in.content \o
                        SubSeq(original, i + Len(in.target), Len(original))]_vars

\* C27: insert_at_line with an integer target n never fails; it stores as
\* new_content the lines of the original (split on newline) with the content
\* inserted as one element at index n - 1 clamped to 0..lineCount, joined by
\* newlines: for n <= 1 that is content, newline, original, and for
\* n > lineCount it is original, newline, content.
C27_InsertAtLineClamps ==
    [][\A t \in Tasks, n \in NoteIds, in \in TransformInputs :
          ( /\ tasks[t].op = "idle"
            /\ tasks'[t].op = "preview_update"
            /\ PreviewUpdate(t, n, in)
            /\ in.operation = "insert_at_line"
            /\ IsInt(in.target) ) =>
             LET original == notes[n]
                 lines == SplitLines(original)
                 k == IntValue(in.target)
                 at == IF k - 1 < 0 THEN 0 ELSE IF k - 1 > Len(lines) THEN Len(lines) ELSE k - 1
                 new == previews'[nextPid].new_content
             IN  /\ tasks'[t].pc = "create_commit"
                 /\ new = JoinLines(SubSeq(lines, 1, at) \o <<in.content>> \o
                                    SubSeq(lines, at + 1, Len(lines)))
                 /\ k <= 1 => new = in.content \o <<NL>> \o original
                 /\ k > Len(lines) => new = original \o <<NL>> \o in.content]_vars

\* C27 witness: a preview of insert_at_line with target -1 on a note of two
\* lines holds the content before the first line
C27_InsertedBeforeFirstLine ==
    \E p \in DOMAIN previews :
        /\ previews[p].operation = "insert_at_line"
        /\ previews[p].target = <<"-", "1">>
        /\ previews[p].original_content = TwoLines
        /\ previews[p].new_content = <<"X", NL>> \o TwoLines

\* the number of '#' characters a line begins with
LeadingHashes(line) ==
    CHOOSE k \in 0..Len(line) :
        /\ \A i \in 1..k : line[i] = HASH
        /\ k = Len(line) \/ line[k + 1] # HASH

\* no header line of the text is indented
NoIndentedHeader(text) ==
    \A i \in 1..Len(SplitLines(text)) :
        IsHeaderLine(SplitLines(text)[i]) => Head(SplitLines(text)[i]) = HASH

C29_AppendPrepend ==
    [][\A t \in Tasks, n \in NoteIds, in \in TransformInputs :
          ( /\ tasks[t].op = "idle"
            /\ tasks'[t].op = "preview_update"
            /\ PreviewUpdate(t, n, in)
            /\ in.operation \in {"append", "prepend"} ) =>
             /\ tasks'[t].pc = "create_commit"
             /\ previews'[nextPid].original_content = notes[n]
             /\ in.operation = "append" =>
                   /\ previews'[nextPid].new_content = notes[n] \o <<NL>> \o in.content
                   /\ Len(previews'[nextPid].new_content) = Len(notes[n]) + 1 + Len(in.content)
             /\ in.operation = "prepend" =>
                   /\ previews'[nextPid].new_content = in.content \o <<NL>> \o notes[n]
                   /\ Len(previews'[nextPid].new_content) = Len(notes[n]) + 1 + Len(in.content)]_vars

\* C29 witness: the preview of an append of the empty content to an empty note
\* holds a single newline
C29_AppendedEmptyToEmpty ==
    \E p \in DOMAIN previews :
        /\ previews[p].operation = "append"
        /\ previews[p].original_content = <<>>
        /\ previews[p].new_content = <<NL>>

\* what a bear_preview_update call k produced: the new_content it stored, or
\* the reason of its failure
Outcome(k) ==
    IF k.id \in DOMAIN previews THEN <<"ok", previews[k.id].new_content>>
    ELSE <<"error", k.result.detail>>

CommittedFor(p) == {r \in DOMAIN disk.applied : disk.applied[r].preview_id = p}

\* apply handler t of preview p has written the note and has not issued its
\* status UPDATE yet
ApplyAfterWrite(t, p) ==
    /\ tasks[t].op = "apply"
    /\ tasks[t].id = p
    /\ tasks[t].pc \in {"record_commit", "status_update"}

\* C31: apply_changes writes the note, then records the applied_changes row,
\* then sets the status: in every state, and in what every state has committed,
\* a preview whose status is applied has had a note-store write carried out and
\* has an applied_changes row; and a process stop between the write and the
\* status UPDATE leaves the preview pending, the note already written.
C31_WriteRecordTransition ==
    /\ [](\A p \in DOMAIN previews :
             previews[p].status = "applied" => (writes[p] >= 1 /\ AppliedFor(p) # {}))
    /\ [](\A p \in DOMAIN disk.previews :
             disk.previews[p].status = "applied" => (writes[p] >= 1 /\ CommittedFor(p) # {}))
    /\ [][\A t \in Tasks, p \in Pids :
             (crashes' = crashes + 1 /\ ApplyAfterWrite(t, p))
             => ( /\ writes[p] >= 1
                  /\ notes' = notes
                  /\ p \in DOMAIN previews'
                  /\ previews'[p].status = "pending" )]_vars

\* C32: every applied_changes row's preview_id names a row of previews that
\* still exists: no step deletes a preview and leaves an applied_changes row
\* that points to it.
C32_AppliedRefersToPreview ==
    [][\A r \in DOMAIN applied' :
          applied'[r].preview_id \in DOMAIN previews
          => applied'[r].preview_id \in DOMAIN previews']_vars

\* C33: update_preview_status returns True exactly when a row with that id
\* existed and was updated, and returns False, having changed nothing, when
\* there is none, whatever other handlers ran on the connection between its
\* UPDATE and its SELECT changes(): the value it reads is positive exactly
\* when the row exists, and an UPDATE that names no row leaves previews alone.
C33_SetStatusReturn ==
    [][\A t \in Tasks :
          /\ (tasks[t].pc = "status_changes" /\ Stepped(t))
                => ((changes > 0) <=> (tasks[t].id \in DOMAIN previews))
          /\ (tasks[t].op = "idle" /\ tasks'[t].op = "reject"
                /\ tasks'[t].id \notin DOMAIN previews)
                => previews' = previews]_vars

\* preview row pv can still be approved: it is pending and not past expires_at
Approvable(pv) == pv.status = "pending" /\ ~(pv.expires_at < now)

\* C34: no sweep deletes or changes a preview that is pending and not past its
\* expires_at, nor an applied_changes row of such a preview: every step of
\* cleanup_expired and cleanup_old_records leaves those rows as they were, so a
\* status call or a decision on such a preview finds the same rows before and
\* after the sweep.
C34_SweepsKeepApprovable ==
    [][\A p \in DOMAIN previews :
          Approvable(previews[p]) =>
             /\ p \in DOMAIN previews'
             /\ previews'[p] = previews[p]
             /\ \A r \in AppliedFor(p) : r \in DOMAIN applied' /\ applied'[r] = applied[r]
             /\ notes' = notes]_vars

\* C34 witness: Database.connect has finished, its last DELETE removed a
\* preview, and a preview that can still be approved is in the table
C34_SweptAroundApprovable ==
    \E t \in Tasks, p \in DOMAIN previews :
        /\ Running(t, "connect", "done")
        /\ changes > 0
        /\ Approvable(previews[p])

\* C35: while the process keeps running, a pending preview whose expires_at is
\* more than 24 hours in the past is eventually deleted from previews.
C35_SweepTimerDeletes ==
    \A p \in Pids :
        ( /\ p \in DOMAIN previews
          /\ previews[p].status = "pending"
          /\ now - previews[p].expires_at > CLEANUP_HOURS * 60 )
        ~> (p \notin DOMAIN previews)

\* the number of leading '#' characters of a line after trimming whitespace
TrimmedLevel(line) == LeadingHashes(Strip(line))

\* C36: in replace_section the level of a header is the number of leading '#'
\* of the line after trimming whitespace, for the matched header and for the
\* headers that can end its section alike: the stored new_content keeps the
\* lines up to the first header that contains the target, then the content,
\* then the lines from the next header whose trimmed level is at most the
\* trimmed level of the matched one, whether or not those lines are indented.
C36_LevelAfterTrimming ==
    [][\A t \in Tasks, n \in NoteIds, in \in TransformInputs :
          ( /\ tasks[t].op = "idle"
            /\ tasks'[t].op = "preview_update"
            /\ PreviewUpdate(t, n, in)
            /\ in.operation = "replace_section"
            /\ in.target # <<>>
            /\ \E i \in 1..Len(SplitLines(notes[n])) :
                  /\ StartsWith(Strip(SplitLines(notes[n])[i]), <<HASH>>)
                  /\ Contains(SplitLines(notes[n])[i], in.target) ) =>
             LET lines == SplitLines(notes[n])
                 matches == {i \in 1..Len(lines) :
                                /\ StartsWith(Strip(lines[i]), <<HASH>>)
                                /\ Contains(lines[i], in.target)}
                 h == CHOOSE i \in matches : \A j \in matches : i <= j
                 stops == {j \in (h + 1)..Len(lines) :
                              /\ StartsWith(Strip(lines[j]), <<HASH>>)
                              /\ TrimmedLevel(lines[j]) <= TrimmedLevel(lines[h])}
                 e == IF stops = {} THEN Len(lines) + 1
                      ELSE CHOOSE j \in stops : \A k \in stops : j <= k
             IN  /\ tasks'[t].pc = "create_commit"
                 /\ previews'[nextPid].new_content =
                        JoinLines(SubSeq(lines, 1, h) \o <<in.content>> \o
                                  SubSeq(lines, e, Len(lines)))]_vars

ViewOps == {"preview_page", "http_status"}

\* C37: GET /preview/{id} and GET /api/status/{id} change nothing except the
\* status of a preview that is pending and past its expires_at, which becomes
\* expired: no step of either handler writes the note store, adds or removes
\* a row of either table, or changes a row in any other way; in particular a
\* preview that is applied is left as it is.
C37_ViewsOnlyDemote ==
    [][\A t \in Tasks :
          ((tasks[t].op \in ViewOps \/ tasks'[t].op \in ViewOps) /\ Stepped(t)) =>
             /\ notes' = notes
             /\ writes' = writes
             /\ applied' = applied
             /\ DOMAIN previews' = DOMAIN previews
             /\ \A p \in DOMAIN previews :
                   previews'[p] # previews[p] =>
                      /\ previews[p].status = "pending"
                      /\ previews[p].expires_at < now
                      /\ previews'[p] = [previews[p] EXCEPT !.status = "expired"]]_vars

\* the answer of a finished handler reports success (a tool result or a 200)
Succeeded(k) == k.pc = "done" /\ k.result.code \in {"ok", "200"}

\* C38: the tool and the HTTP route of each pair behave alike.  Rollback:
\* bear_rollback_change and POST /api/restore of one rollback id read the same
\* row and both fail when there is none; the write of either puts the row's
\* original_content in the row's note and reports success, or, when the note
\* store reports failure, leaves every note alone and reports failure; neither
\* touches the tables.  Status: bear_get_status and GET /api/status that read
\* the same rows and reach the same verdict on expiry report the same status
\* and rollback id, and the only change either makes to the tables is
\* status := expired on the preview asked about.
C38_AdaptersAgree ==
    /\ [](\A t1, t2 \in Tasks :
            ( /\ tasks[t1].op = "rollback" /\ tasks[t2].op = "restore"
              /\ tasks[t1].id = tasks[t2].id
              /\ tasks[t1].pc = "done" /\ tasks[t2].pc = "done" ) =>
                /\ tasks[t1].row = tasks[t2].row
                /\ tasks[t1].row = <<>> => (~Succeeded(tasks[t1]) /\ ~Succeeded(tasks[t2])))
    /\ [][\A t \in Tasks :
            (tasks[t].op \in RollbackOps /\ tasks[t].pc = "rollback_write" /\ Stepped(t)) =>
                LET data == tasks[t].row[1] IN
                /\ \/ Succeeded(tasks'[t]) /\ notes' = NoteWritten(data.note_id,
                                                                   data.original_content)
                   \/ ~Succeeded(tasks'[t]) /\ tasks'[t].pc = "done" /\ notes' = notes
                /\ previews' = previews /\ applied' = applied /\ disk' = disk]_vars
    /\ [](\A t1, t2 \in Tasks :
            ( /\ tasks[t1].op = "get_status" /\ tasks[t2].op = "http_status"
              /\ tasks[t1].pc = "done" /\ tasks[t2].pc = "done"
              /\ tasks[t1].id = tasks[t2].id
              /\ tasks[t1].preview = tasks[t2].preview
              /\ tasks[t1].row = tasks[t2].row
              /\ tasks[t1].upd = tasks[t2].upd ) =>
                /\ tasks[t1].result.status = tasks[t2].result.status
                /\ tasks[t1].result.rollback_id = tasks[t2].result.rollback_id
                /\ Succeeded(tasks[t1]) <=> Succeeded(tasks[t2]))
    /\ [][\A t \in Tasks :
            (tasks[t].op \in StatusOps /\ Stepped(t)) =>
                /\ notes' = notes /\ applied' = applied
                /\ previews' \in {previews, UpdateStatusRows(tasks[t].id, "expired")}]_vars

\* C38 witness: the tool and the HTTP route have both rolled back the same
\* applied change, both report success, and the note holds the original text
C38_BothAdaptersRolledBack ==
    \E t1, t2 \in Tasks :
        /\ tasks[t1].op = "rollback" /\ tasks[t2].op = "restore"
        /\ tasks[t1].id = tasks[t2].id
        /\ Succeeded(tasks[t1]) /\ Succeeded(tasks[t2])
        /\ notes[tasks[t1].row[1].note_id] = tasks[t1].row[1].original_content

====
